---- MODULE Spec2Model ----
(***************************************************************************)
(* Order lifecycle of the shop application: create_checkout_session,       *)
(* stripe_webhook, _send_order_notification and get_order_status of        *)
(* shop/views.py over the Order table of shop/models.py.                   *)
(*                                                                         *)
(* Every request is handled by a worker.  A handler is split at its        *)
(* accesses to shared state (a database statement, the call to the         *)
(* payment provider, the call to the mail sender): what a handler does     *)
(* between two such accesses touches only its own locals and is part of    *)
(* the step of the access that precedes it.                                *)
(*                                                                         *)
(* Python values: dicts are functions on their keys (d.get(k, x) is Get),  *)
(* None among strings is the value None, None among integers and           *)
(* datetimes is NoneInt.  Amounts of money are integers in cents.          *)
(***************************************************************************)
EXTENDS Integers, Sequences, FiniteSets, TLC

\* ------------------------------------------------------------- bounds
MaxProcs == 2        \* workers handling requests concurrently
MaxRequests == 3     \* requests received in one behaviour
MaxTime == 2         \* readings of the clock: 1..MaxTime

\* ------------------------------------------------------------- values
None == "None"
NoneInt == -1
EmptyDict == <<>>
\* a JSON value float() or int() rejects with ValueError
Malformed == -999999

Procs == 1..MaxProcs

\* settings.API_KEY
API_KEY == "secret"

\* d.get(k, x)
Get(d, k, x) == IF k \in DOMAIN d THEN d[k] ELSE x

\* truth value of a str-or-None
TruthyStr(s) == s # None /\ s # ""

\* truth value of a dict or list
TruthyColl(d) == DOMAIN d # {}

VARIABLES
    orders,     \* the Order table: orders[i] is the row with order_id = i
    sessions,   \* the provider's checkout sessions: [id, metadata]
    now,        \* the clock timezone.now() and the auto_now fields read
    pc,         \* pc[p]: where worker p is in its handler
    local,      \* local[p]: the handler's locals
    nreq,       \* requests received so far
    resp,       \* the response the last step sent, NoResponse if it sent none
    mail,       \* mail[i]: calls of send_mail for order i
    applied,    \* applied[i]: saves of a session-completed delivery on order i
    lastWrite,  \* lastWrite[i]: the event whose save wrote orders[i] last
    delivered   \* delivered[i]: the row the checkout handler wrote last (base) and
                \* the events saved on it since, in the order of their saves (log)

vars == <<orders, sessions, now, pc, local, nreq, resp, mail, applied, lastWrite,
          delivered>>

\* ------------------------------------------------------------- inputs
\* a JSON number is its value in hundredths: the price 25000 is 250.00, the
\* quantity 200 is 2 and the quantity 250 is 2.5
Rug == [product_id |-> 1, name |-> "Rug", price |-> 25000, quantity |-> 200]
Mat == [product_id |-> 2, name |-> "Mat", price |-> 999, quantity |-> 300, size |-> "90x90"]
Bare == [price |-> 150]
Bad == [name |-> "Rug", price |-> Malformed, quantity |-> 100]
Runner == [name |-> "Runner", price |-> 1200, quantity |-> 250]

\* json.loads(request.body) of the requests sent to create_checkout_session;
\* a body that is no JSON has the key invalid_json
CheckoutBodies ==
    { [items |-> <<Rug>>, customer_email |-> "a@b.com", customer_name |-> "Ann",
       shipping_address |-> [line1 |-> "1 Rd", line2 |-> "Apt 4", city |-> "Paris"]],
      [items |-> <<Mat, Bare>>, customer_email |-> "c@d.com"],
      [items |-> <<Runner>>, customer_email |-> "a@b.com"],
      [items |-> <<>>, customer_email |-> "a@b.com"],
      [customer_email |-> "a@b.com"],
      [items |-> <<Rug>>],
      [items |-> <<Rug>>, customer_email |-> ""],
      [items |-> <<Bad>>, customer_email |-> "a@b.com"],
      [invalid_json |-> TRUE] }

\* the requests sent to create_checkout_session: the X-API-KEY header (None when
\* absent) and the body
CheckoutRequests ==
    {[api_key |-> API_KEY, body |-> b] : b \in CheckoutBodies}
    \cup {[api_key |-> k, body |-> b] :
             k \in {None, "wrong"},
             b \in {[items |-> <<Rug>>, customer_email |-> "a@b.com"]}}

\* ids the provider gives its checkout sessions
SessionIds == {"cs_1", "cs_2"}

\* an order id no row of this database has
ForeignOrderId == MaxRequests + 1

\* sessions of the provider account this application did not create
ForeignSessions ==
    { [id |-> "cs_x", metadata |-> EmptyDict],
      [id |-> "cs_y", metadata |-> [order_id |-> ForeignOrderId]] }

PaymentIntents == {"pi_1", "pi_2"}

\* session['shipping_details'] of an event, when the key is there
ShippingDetails ==
    { EmptyDict,
      [name |-> "Bob",
       address |-> [line1 |-> "9 Av", line2 |-> None, city |-> "Lyon",
                    postal_code |-> "69000", country |-> "FR"]],
      [address |-> [city |-> "Nice"]] }

Completed == "checkout.session.completed"
Expired == "checkout.session.expired"
OtherType == "payment_intent.succeeded"

\* event['data']['object'] of the session-completed events for provider session s
SessionObjects(s) ==
    LET base(pi) == [id |-> s.id, metadata |-> s.metadata, payment_intent |-> pi]
    IN  {base(pi) : pi \in PaymentIntents}
        \cup {base("pi_1") @@ [shipping_details |-> d] : d \in ShippingDetails}

\* the deliveries the webhook route can receive: what the provider signs is
\* about one of its sessions; an unsigned payload is anything
Events ==
    LET known    == sessions
        anything == {[id |-> "cs_f", metadata |-> [order_id |-> i]] :
                         i \in 1..Len(orders)}
    IN  {[sig_valid |-> TRUE, type |-> Completed, data |-> [object |-> o]] :
            o \in UNION {SessionObjects(s) : s \in known}}
        \cup {[sig_valid |-> TRUE, type |-> t,
               data |-> [object |-> [id |-> s.id, metadata |-> s.metadata,
                                     payment_intent |-> None]]] :
                 t \in {Expired, OtherType}, s \in known}
        \cup {[sig_valid |-> FALSE, type |-> t,
               data |-> [object |-> [id |-> s.id, metadata |-> s.metadata,
                                     payment_intent |-> "pi_1"]]] :
                 t \in {Completed, Expired}, s \in anything}

\* ------------------------------------------------------------- helpers
Idle(p) == pc[p] = "idle"

\* the server hands a request to its first free worker
Free(p) == Idle(p) /\ \A q \in Procs : q < p => ~Idle(q)

\* the JsonResponse of request number n
Response(n, handler, request, status, body) ==
    [n |-> n, handler |-> handler, request |-> request, status |-> status,
     body |-> body]

\* no response
NoResponse == Response(0, "none", EmptyDict, 0, EmptyDict)

\* the key check asking only for a key
require_api_key_AnyKey(api_key) == TruthyStr(api_key)

\* shop/authentication.py: the wrapper lets the view run
require_api_key(api_key) == TruthyStr(api_key) /\ api_key = API_KEY

\* views.py 48: if not items
MissingItems(items) == ~TruthyColl(items)

\* the email check testing for None alone
MissingEmail_NoneOnly(customer_email) == customer_email = None

\* views.py 50: if not customer_email
MissingEmail(customer_email) == ~TruthyStr(customer_email)

\* float(item.get('price', 0)) and int(item.get('quantity', 1)) raise
Raises(item) ==
    \/ Get(item, "price", 0) = Malformed
    \/ Get(item, "quantity", 100) = Malformed

\* int(x) of a number x >= 0: its whole part
IntOf(x) == x \div 100

\* the total with the quantities left out
RECURSIVE TotalAmount_NoQuantity(_, _)
TotalAmount_NoQuantity(items, i) ==
    IF i = 0 THEN 0
    ELSE TotalAmount_NoQuantity(items, i - 1) + Get(items[i], "price", 0)

\* total_amount after the loop over items[1..i]
RECURSIVE TotalAmount(_, _)
TotalAmount(items, i) ==
    IF i = 0 THEN 0
    ELSE TotalAmount(items, i - 1)
         + Get(items[i], "price", 0) * IntOf(Get(items[i], "quantity", 100))

\* Order.objects.create(...) of create_checkout_session, with the model's
\* defaults for the fields it does not pass
NewOrder(order_id, data, total_amount) ==
    LET shipping_address == Get(data, "shipping_address", EmptyDict)
    IN  [order_id |-> order_id,
         stripe_session_id |-> None,
         stripe_payment_intent_id |-> None,
         customer_email |-> data.customer_email,
         customer_name |-> Get(data, "customer_name", ""),
         customer_phone |-> Get(data, "customer_phone", ""),
         shipping_address_line1 |-> Get(shipping_address, "line1", ""),
         shipping_address_line2 |-> Get(shipping_address, "line2", ""),
         shipping_city |-> Get(shipping_address, "city", ""),
         shipping_postal_code |-> Get(shipping_address, "postal_code", ""),
         shipping_country |-> Get(shipping_address, "country", ""),
         items |-> data.items,
         total_amount |-> total_amount,
         currency |-> "EUR",
         status |-> "pending",
         created_at |-> now,
         updated_at |-> now,
         paid_at |-> NoneInt]

\* stripe_session_id without unique=True
UniqueViolation_Off(order) == FALSE

\* unique=True of stripe_session_id: the UPDATE of row order.order_id is refused
\* when another row holds the same non-null value
UniqueViolation(order) ==
    /\ order.stripe_session_id # None
    /\ \E j \in 1..Len(orders) :
          /\ j # order.order_id
          /\ orders[j].stripe_session_id = order.stripe_session_id

\* a save with update_fields=['status']
Saved_StatusOnly(order) ==
    [orders EXCEPT ![order.order_id].status = order.status,
                   ![order.order_id].updated_at = now]

\* order.save(): every field of the instance is written to its row, and auto_now
\* sets updated_at
Saved(order) ==
    [orders EXCEPT ![order.order_id] = [order EXCEPT !.updated_at = now]]

\* ------------------------------------------------------------- Init
Init ==
    /\ orders = <<>>
    /\ sessions = ForeignSessions
    /\ now = 1
    /\ pc = [p \in Procs |-> "idle"]
    /\ local = [p \in Procs |-> EmptyDict]
    /\ nreq = 0
    /\ resp = NoResponse
    /\ mail = <<>>
    /\ applied = <<>>
    /\ lastWrite = <<>>
    /\ delivered = <<>>

\* time passes
Tick ==
    /\ now < MaxTime
    /\ now' = now + 1
    /\ resp' = NoResponse
    /\ UNCHANGED <<orders, sessions, pc, local, nreq, mail, applied, lastWrite, delivered>>

\* worker p sends the response and is free again
Respond(p, r) ==
    /\ resp' = r
    /\ pc' = [pc EXCEPT ![p] = "idle"]
    /\ local' = [local EXCEPT ![p] = EmptyDict]

\* ------------------------------------------- create_checkout_session
\* views.py 22-87: the API key check, the parsing and validation of the body, the
\* loop over the items and Order.objects.create
CheckoutCreate(p, request) ==
    LET api_key == request.api_key
        data == request.body
        reply(status, error) ==
            Respond(p, Response(nreq + 1, "create_checkout_session", request,
                                status, [error |-> error]))
        items == Get(data, "items", <<>>)
        customer_email == Get(data, "customer_email", None)
        order_id == Len(orders) + 1
    IN
    /\ Free(p)
    /\ nreq < MaxRequests
    /\ nreq' = nreq + 1
    /\ IF ~require_api_key(api_key)
         THEN /\ reply(401, "Authentication failed")
              /\ UNCHANGED <<orders, mail, applied, lastWrite, delivered>>
       ELSE IF "invalid_json" \in DOMAIN data
         THEN /\ reply(500, "exception")
              /\ UNCHANGED <<orders, mail, applied, lastWrite, delivered>>
       ELSE IF MissingItems(items)
         THEN /\ reply(400, "No items provided")
              /\ UNCHANGED <<orders, mail, applied, lastWrite, delivered>>
       ELSE IF MissingEmail(customer_email)
         THEN /\ reply(400, "Customer email is required")
              /\ UNCHANGED <<orders, mail, applied, lastWrite, delivered>>
       ELSE IF \E i \in 1..Len(items) : Raises(items[i])
         THEN /\ reply(500, "exception")
              /\ UNCHANGED <<orders, mail, applied, lastWrite, delivered>>
       ELSE LET order == NewOrder(order_id, data, TotalAmount(items, Len(items)))
            IN  /\ orders' = Append(orders, order)
                /\ mail' = Append(mail, 0)
                /\ applied' = Append(applied, 0)
                /\ lastWrite' = Append(lastWrite, EmptyDict)
                /\ delivered' = Append(delivered, [base |-> order, log |-> <<>>])
                /\ pc' = [pc EXCEPT ![p] = "co_stripe"]
                /\ local' = [local EXCEPT ![p] =
                                [n |-> nreq + 1, request |-> request, order |-> order]]
                /\ resp' = NoResponse
    /\ UNCHANGED <<sessions, now>>

\* the handler cancelling its order when the provider call fails
CheckoutStripe_Cleanup(p) ==
    /\ pc[p] = "co_stripe"
    /\ \/ /\ Respond(p, Response(local[p].n, "create_checkout_session",
                                 local[p].request, 400, [error |-> "StripeError"]))
          /\ orders' = [orders EXCEPT ![local[p].order.order_id].status = "cancelled"]
          /\ UNCHANGED sessions
       \/ \E id \in SessionIds :
            /\ sessions' = sessions \cup
                  {[id |-> id, metadata |-> [order_id |-> local[p].order.order_id]]}
            /\ local' = [local EXCEPT ![p] =
                   [n |-> local[p].n, request |-> local[p].request,
                    order |-> [local[p].order EXCEPT !.stripe_session_id = id],
                    checkout_session |-> [id |-> id, url |-> <<"https://pay/", id>>]]]
            /\ pc' = [pc EXCEPT ![p] = "co_save"]
            /\ resp' = NoResponse
            /\ UNCHANGED orders
    /\ UNCHANGED <<now, nreq, mail, applied, lastWrite, delivered>>

\* views.py 89-107: stripe.checkout.Session.create; the provider answers with a
\* session, or the call raises StripeError (views.py 116-117)
CheckoutStripe(p) ==
    /\ pc[p] = "co_stripe"
    /\ \/ /\ Respond(p, Response(local[p].n, "create_checkout_session",
                                 local[p].request, 400, [error |-> "StripeError"]))
          /\ UNCHANGED sessions
       \/ \E id \in SessionIds :
            LET checkout_session == [id |-> id, url |-> <<"https://pay/", id>>]
            IN  /\ sessions' = sessions \cup
                      {[id |-> id,
                        metadata |-> [order_id |-> local[p].order.order_id]]}
                /\ local' = [local EXCEPT ![p] =
                       [n |-> local[p].n, request |-> local[p].request,
                        order |-> [local[p].order EXCEPT !.stripe_session_id = id],
                        checkout_session |-> checkout_session]]
                /\ pc' = [pc EXCEPT ![p] = "co_save"]
                /\ resp' = NoResponse
    /\ UNCHANGED <<orders, now, nreq, mail, applied, lastWrite, delivered>>

\* views.py 108-114: order.save() and the response; an IntegrityError of the
\* save is caught at views.py 118-119
CheckoutSave(p) ==
    LET order == local[p].order
        reply(status, body) ==
            Respond(p, Response(local[p].n, "create_checkout_session",
                                local[p].request, status, body))
    IN
    /\ pc[p] = "co_save"
    /\ IF UniqueViolation(order)
         THEN /\ reply(500, [error |-> "exception"])
              /\ UNCHANGED <<orders, lastWrite, delivered>>
         ELSE /\ orders' = Saved(order)
              /\ lastWrite' = [lastWrite EXCEPT ![order.order_id] = EmptyDict]
              /\ delivered' = [delivered EXCEPT ![order.order_id] =
                                  [base |-> order, log |-> <<>>]]
              /\ reply(200, [checkout_url |-> local[p].checkout_session.url,
                             session_id |-> local[p].checkout_session.id,
                             order_id |-> order.order_id])
    /\ UNCHANGED <<sessions, now, nreq, mail, applied>>

\* ------------------------------------------------------ stripe_webhook
\* construct_event with the signature check left out
construct_event_Unverified(ev) == TRUE

\* stripe.Webhook.construct_event returns the event
construct_event(ev) == ev.sig_valid

\* a session-completed event taken for the shipment of the order
ApplyCompleted_Shipped(order, session) ==
    [order EXCEPT
        !.status = "shipped",
        !.stripe_payment_intent_id = Get(session, "payment_intent", None),
        !.paid_at = now]

\* a session-completed event that also takes the amount of the session
ApplyCompleted_AmountFromSession(order, session) ==
    [order EXCEPT
        !.status = "paid",
        !.stripe_payment_intent_id = Get(session, "payment_intent", None),
        !.paid_at = now,
        !.total_amount = Get(session, "amount_total", 0)]

\* views.py 147-160: what a session-completed event assigns to the instance
ApplyCompleted(order, session) ==
    LET shipping == Get(session, "shipping_details", EmptyDict)
        address == Get(shipping, "address", EmptyDict)
        paid == [order EXCEPT
                    !.status = "paid",
                    !.stripe_payment_intent_id = Get(session, "payment_intent", None),
                    !.paid_at = now]
    IN  IF TruthyColl(shipping)
          THEN [paid EXCEPT
                  !.customer_name = Get(shipping, "name", order.customer_name),
                  !.shipping_address_line1 =
                      Get(address, "line1", order.shipping_address_line1),
                  !.shipping_address_line2 =
                      Get(address, "line2", order.shipping_address_line2),
                  !.shipping_city = Get(address, "city", order.shipping_city),
                  !.shipping_postal_code =
                      Get(address, "postal_code", order.shipping_postal_code),
                  !.shipping_country =
                      Get(address, "country", order.shipping_country)]
          ELSE paid

\* a session-expired event taken for a refund
ApplyExpired_Refunded(order) == [order EXCEPT !.status = "refunded"]

\* views.py 175: what a session-expired event assigns to the instance
ApplyExpired(order) == [order EXCEPT !.status = "cancelled"]

\* the JsonResponse of the webhook for the delivery ev, request number n
WebhookResponse(n, ev, status, body) ==
    Response(n, "stripe_webhook", ev, status, body)

\* views.py 130-144, 169-172: the signature check and the dispatch on the type of
\* the event, up to the lookup of the order
WebhookVerify(p, ev) ==
    LET session == ev.data.object
        order_id == Get(Get(session, "metadata", EmptyDict), "order_id", NoneInt)
    IN
    /\ Free(p)
    /\ nreq < MaxRequests
    /\ nreq' = nreq + 1
    /\ IF ~construct_event(ev)
         THEN Respond(p, WebhookResponse(nreq + 1, ev, 400,
                                         [error |-> "Invalid signature"]))
       ELSE IF ev.type \in {Completed, Expired} /\ order_id # NoneInt
         THEN /\ pc' = [pc EXCEPT ![p] = "wh_get"]
              /\ local' = [local EXCEPT ![p] =
                              [n |-> nreq + 1, event |-> ev, order_id |-> order_id]]
              /\ resp' = NoResponse
       ELSE Respond(p, WebhookResponse(nreq + 1, ev, 200, [status |-> "success"]))
    /\ UNCHANGED <<orders, sessions, now, mail, applied, lastWrite, delivered>>

\* the lookup answering 404 for an order that does not exist
WebhookGet_NotFound(p) ==
    /\ pc[p] = "wh_get"
    /\ IF local[p].order_id \notin 1..Len(orders)
         THEN Respond(p, WebhookResponse(local[p].n, local[p].event, 404,
                                         [error |-> "Order not found"]))
         ELSE /\ local' = [local EXCEPT ![p] =
                    [n |-> local[p].n, event |-> local[p].event,
                     order_id |-> local[p].order_id,
                     order |-> IF local[p].event.type = Completed
                                 THEN ApplyCompleted(orders[local[p].order_id],
                                                     local[p].event.data.object)
                                 ELSE ApplyExpired(orders[local[p].order_id])]]
              /\ pc' = [pc EXCEPT ![p] = "wh_save"]
              /\ resp' = NoResponse
    /\ UNCHANGED <<orders, sessions, now, nreq, mail, applied, lastWrite, delivered>>

\* views.py 146-160, 174-175: Order.objects.get and the assignments to the
\* instance; Order.DoesNotExist is passed over (views.py 166-167, 177-178)
WebhookGet(p) ==
    LET ev == local[p].event
        order_id == local[p].order_id
    IN
    /\ pc[p] = "wh_get"
    /\ IF order_id \notin 1..Len(orders)
         THEN Respond(p, WebhookResponse(local[p].n, ev, 200, [status |-> "success"]))
         ELSE /\ local' = [local EXCEPT ![p] =
                    [n |-> local[p].n, event |-> ev, order_id |-> order_id,
                     order |-> IF ev.type = Completed
                                 THEN ApplyCompleted(orders[order_id], ev.data.object)
                                 ELSE ApplyExpired(orders[order_id])]]
              /\ pc' = [pc EXCEPT ![p] = "wh_save"]
              /\ resp' = NoResponse
    /\ UNCHANGED <<orders, sessions, now, nreq, mail, applied, lastWrite, delivered>>

\* views.py 162, 176: order.save(); an IntegrityError is not caught and the
\* framework answers 500
WebhookSave(p) ==
    LET ev == local[p].event
        order == local[p].order
    IN
    /\ pc[p] = "wh_save"
    /\ IF UniqueViolation(order)
         THEN /\ Respond(p, WebhookResponse(local[p].n, ev, 500, [error |-> "exception"]))
              /\ UNCHANGED <<orders, applied, lastWrite, delivered>>
         ELSE /\ orders' = Saved(order)
              /\ lastWrite' = [lastWrite EXCEPT ![order.order_id] = ev]
              /\ delivered' = [delivered EXCEPT ![order.order_id].log = Append(@, ev)]
              /\ IF ev.type = Completed
                   THEN /\ applied' = [applied EXCEPT ![order.order_id] = @ + 1]
                        /\ pc' = [pc EXCEPT ![p] = "wh_mail"]
                        /\ resp' = NoResponse
                        /\ UNCHANGED local
                   ELSE /\ Respond(p, WebhookResponse(local[p].n, ev, 200,
                                                      [status |-> "success"]))
                        /\ UNCHANGED applied
    /\ UNCHANGED <<sessions, now, nreq, mail>>

\* the webhook answering without the notification
WebhookMail_Skipped(p) ==
    /\ pc[p] = "wh_mail"
    /\ Respond(p, WebhookResponse(local[p].n, local[p].event, 200,
                                  [status |-> "success", mail_sent |-> FALSE]))
    /\ UNCHANGED <<orders, sessions, now, nreq, mail, applied, lastWrite, delivered>>

\* the failure of send_mail answered as an error of the webhook
WebhookMail_Propagates(p) ==
    /\ pc[p] = "wh_mail"
    /\ mail' = [mail EXCEPT ![local[p].order.order_id] = @ + 1]
    /\ \/ Respond(p, WebhookResponse(local[p].n, local[p].event, 200,
                                     [status |-> "success", mail_sent |-> TRUE]))
       \/ Respond(p, WebhookResponse(local[p].n, local[p].event, 500,
                                     [status |-> "error", mail_sent |-> FALSE]))
    /\ UNCHANGED <<orders, sessions, now, nreq, applied, lastWrite, delivered>>

\* views.py 165, 183-205: _send_order_notification calls send_mail, whose failure
\* is swallowed, and the webhook answers
WebhookMail(p) ==
    /\ pc[p] = "wh_mail"
    /\ mail' = [mail EXCEPT ![local[p].order.order_id] = @ + 1]
    /\ \E sent \in BOOLEAN :
          Respond(p, WebhookResponse(local[p].n, local[p].event, 200,
                                     [status |-> "success", mail_sent |-> sent]))
    /\ UNCHANGED <<orders, sessions, now, nreq, applied, lastWrite, delivered>>

\* ---------------------------------------------------- get_order_status
\* str(order.total_amount) of the two-place decimal: the digits before and
\* after the point
DecimalStr(cents) ==
    [sign |-> IF cents < 0 THEN "-" ELSE "",
     whole |-> (IF cents < 0 THEN -cents ELSE cents) \div 100,
     frac |-> (IF cents < 0 THEN -cents ELSE cents) % 100]

\* datetime.isoformat()
IsoFormat(t) == <<"T", t>>

\* the projection with the amount cut to whole units
Projection_WholeAmount(order) ==
    [order_id |-> order.order_id,
     status |-> order.status,
     customer_email |-> order.customer_email,
     customer_name |-> order.customer_name,
     total_amount |-> [DecimalStr(order.total_amount) EXCEPT !.frac = 0],
     currency |-> order.currency,
     items |-> order.items,
     created_at |-> IsoFormat(order.created_at),
     paid_at |-> IF order.paid_at # NoneInt THEN IsoFormat(order.paid_at) ELSE <<>>]

\* views.py 228-238: the projection of the order
Projection(order) ==
    [order_id |-> order.order_id,
     status |-> order.status,
     customer_email |-> order.customer_email,
     customer_name |-> order.customer_name,
     total_amount |-> DecimalStr(order.total_amount),
     currency |-> order.currency,
     items |-> order.items,
     created_at |-> IsoFormat(order.created_at),
     paid_at |-> IF order.paid_at # NoneInt THEN IsoFormat(order.paid_at) ELSE <<>>]

\* the rows Order.objects.get(...) of views.py 223-226 selects
Lookup(session_id, order_id) ==
    IF TruthyStr(session_id)
      THEN {i \in 1..Len(orders) : orders[i].stripe_session_id = session_id}
      ELSE {i \in 1..Len(orders) : i = order_id}

\* the requests sent to get_order_status: the X-API-KEY header and the query
\* parameters (None, NoneInt when absent)
StatusRequests ==
    {[api_key |-> API_KEY, GET |-> [session_id |-> sid, order_id |-> NoneInt]] :
        sid \in {None, "", "cs_1", "cs_2", "cs_x"}}
    \cup {[api_key |-> API_KEY, GET |-> [session_id |-> sid, order_id |-> oid]] :
            sid \in {None, "cs_1"}, oid \in {1, 2, ForeignOrderId}}
    \cup {[api_key |-> k, GET |-> [session_id |-> None, order_id |-> 1]] :
            k \in {None, "wrong"}}

\* views.py 208-240
GetOrderStatus(p, request) ==
    LET api_key == request.api_key
        session_id == request.GET.session_id
        order_id == request.GET.order_id
        reply(status, body) ==
            Respond(p, Response(nreq + 1, "get_order_status", request, status, body))
        found == Lookup(session_id, order_id)
    IN
    /\ Free(p)
    /\ nreq < MaxRequests
    /\ nreq' = nreq + 1
    /\ IF ~require_api_key(api_key)
         THEN reply(401, [error |-> "Authentication failed"])
       ELSE IF ~TruthyStr(session_id) /\ order_id = NoneInt
         THEN reply(400, [error |-> "session_id or order_id required"])
       ELSE IF found = {}
         THEN reply(404, [error |-> "Order not found"])
       ELSE IF Cardinality(found) > 1
         THEN reply(500, [error |-> "exception"])
       ELSE reply(200, Projection(orders[CHOOSE i \in found : TRUE]))
    /\ UNCHANGED <<orders, sessions, now, mail, applied, lastWrite, delivered>>

\* --------------------------------------------------------------- Next
\* a step of worker p
Handle(p) ==
    \/ \E request \in CheckoutRequests : CheckoutCreate(p, request)
    \/ CheckoutStripe(p)
    \/ CheckoutSave(p)
    \/ \E ev \in Events : WebhookVerify(p, ev)
    \/ WebhookGet(p)
    \/ WebhookSave(p)
    \/ WebhookMail(p)
    \/ \E request \in StatusRequests : GetOrderStatus(p, request)

Next == Tick \/ \E p \in Procs : Handle(p)

Spec == Init /\ [][Next]_vars

\* the requests handled one after the other, by one worker
NextSeq == Tick \/ Handle(1)

SpecSeq == Init /\ [][NextSeq]_vars

\* ------------------------------------------------------------- claims
Rows == 1..Len(orders)

\* the step sends the response of a request to handler h
Responds(h) == resp'.handler = h

\* C1: the only status changes an order undergoes are pending -> paid and
\* pending -> cancelled; a paid order is never cancelled later, a cancelled order
\* never paid later.
C1_StatusOnlyForward ==
    [][\A i \in Rows :
          orders'[i].status # orders[i].status
              => /\ orders[i].status = "pending"
                 /\ orders'[i].status \in {"paid", "cancelled"}]_vars

\* C2: once paid_at of an order is set it is never changed or cleared, whatever
\* deliveries follow.
C2_PaidAtSetOnce ==
    [][\A i \in Rows :
          orders[i].paid_at # NoneInt => orders'[i].paid_at = orders[i].paid_at]_vars

\* the stored order but for updated_at, which every save sets
Content(order) == [order EXCEPT !.updated_at = 0]

\* C3: a session-completed event saved on an order whose last write was the save of
\* the same event changes nothing in the stored order (updated_at aside).
C3_SecondDeliveryChangesNothing ==
    [][\A p \in Procs :
          /\ pc[p] = "wh_save"
          /\ pc'[p] = "wh_mail"
          /\ lastWrite[local[p].order_id] = local[p].event
          => Content(orders'[local[p].order_id]) = Content(orders[local[p].order_id])]_vars

\* C4: a delivery whose signature check fails is answered 400, changes no order
\* and sends no notification; and no handling of a delivery gets to read or write
\* an order without the signature having been verified.
C4_InvalidSignatureRejected ==
    [][/\ Responds("stripe_webhook") /\ ~resp'.request.sig_valid
          => /\ resp'.status = 400
             /\ orders' = orders
             /\ mail' = mail
       /\ \A p \in Procs :
             pc'[p] \in {"wh_get", "wh_save", "wh_mail"} => local'[p].event.sig_valid]_vars

\* C4 witness: a forged session-completed delivery naming a stored, pending order
\* has been rejected.
C4_Witness ==
    /\ resp.handler = "stripe_webhook"
    /\ resp.status = 400
    /\ ~resp.request.sig_valid
    /\ resp.request.type = Completed
    /\ resp.request.data.object.metadata.order_id \in Rows
    /\ orders[resp.request.data.object.metadata.order_id].status = "pending"

\* the sum of price x quantity over the items, an absent price being 0 and an
\* absent quantity 1; the product of two numbers in hundredths is in
\* ten-thousandths
RECURSIVE SumPriceQuantity(_)
SumPriceQuantity(items) ==
    IF items = <<>> THEN 0
    ELSE (IF "price" \in DOMAIN Head(items) THEN Head(items).price ELSE 0)
           * (IF "quantity" \in DOMAIN Head(items) THEN Head(items).quantity ELSE 100)
         + SumPriceQuantity(Tail(items))

\* the amount, in hundredths, is the sum of price x quantity over the items
IsSumPriceQuantity(total_amount, items) ==
    total_amount * 100 = SumPriceQuantity(items)

\* a create-checkout request with the API key and a body that parses
Parsed(request) ==
    /\ request.api_key = API_KEY
    /\ "invalid_json" \notin DOMAIN request.body

HasItems(request) ==
    "items" \in DOMAIN request.body /\ Len(request.body.items) > 0

HasEmail(request) ==
    /\ "customer_email" \in DOMAIN request.body
    /\ request.body.customer_email \notin {None, ""}

\* every price and quantity given is a number
Numeric(request) ==
    \A i \in 1..Len(request.body.items) :
        /\ "price" \in DOMAIN request.body.items[i]
              => request.body.items[i].price # Malformed
        /\ "quantity" \in DOMAIN request.body.items[i]
              => request.body.items[i].quantity # Malformed

\* every price given is a number and every quantity given a whole number
WellFormed(request) ==
    /\ Numeric(request)
    /\ \A i \in 1..Len(request.body.items) :
          "quantity" \in DOMAIN request.body.items[i]
              => request.body.items[i].quantity % 100 = 0

ValidCheckout(request) ==
    Parsed(request) /\ HasItems(request) /\ HasEmail(request) /\ WellFormed(request)

\* another row holds the session reference of the instance
HeldByAnother(order) ==
    \E j \in Rows : j # order.order_id
                    /\ order.stripe_session_id # None
                    /\ orders[j].stripe_session_id = order.stripe_session_id

\* the row of Order i is as create_checkout_session made it for the request
PendingOrderOf(row, request) ==
    /\ row.status = "pending"
    /\ IsSumPriceQuantity(row.total_amount, request.body.items)
    /\ row.items = request.body.items
    /\ row.customer_email = request.body.customer_email

\* C5 as stated: every create-checkout request with a non-empty (well-formed) item
\* list and a non-empty email is answered with a non-empty session URL, the
\* session reference and the order id, the order being stored pending with the
\* total of its items.
C5_AlwaysReturnsSession ==
    [][Responds("create_checkout_session") /\ ValidCheckout(resp'.request)
          => /\ resp'.status = 200
             /\ resp'.body.checkout_url # <<>>
             /\ resp'.body.order_id \in Rows
             /\ PendingOrderOf(orders'[resp'.body.order_id], resp'.request)]_vars

\* C5 amended: such a request first stores a new pending order with the total of
\* its items; the handler then answers 400 when the provider call fails, 500 when
\* another order holds the session reference returned, both without touching the
\* orders, and else stores the reference and answers 200 with the URL, the
\* reference and the order id.
C5_PendingOrderThenSession ==
    [][/\ \A p \in Procs :
             pc[p] = "idle" /\ pc'[p] = "co_stripe"
                 => /\ Parsed(local'[p].request)
                    /\ HasItems(local'[p].request)
                    /\ HasEmail(local'[p].request)
                    /\ Numeric(local'[p].request)
                    /\ Len(orders') = Len(orders) + 1
                    /\ SubSeq(orders', 1, Len(orders)) = orders
                    /\ orders'[Len(orders')] = local'[p].order
                    /\ local'[p].order.order_id = Len(orders')
                    /\ local'[p].order.stripe_session_id = None
                    /\ ValidCheckout(local'[p].request)
                          => PendingOrderOf(local'[p].order, local'[p].request)
       /\ Responds("create_checkout_session") /\ ValidCheckout(resp'.request)
             => \E p \in Procs :
                   /\ pc[p] \in {"co_stripe", "co_save"}
                   /\ pc'[p] = "idle"
                   /\ local[p].n = resp'.n
                   /\ IF pc[p] = "co_stripe"
                        THEN resp'.status = 400 /\ orders' = orders
                      ELSE IF HeldByAnother(local[p].order)
                        THEN resp'.status = 500 /\ orders' = orders
                      ELSE /\ resp'.status = 200
                           /\ resp'.body.checkout_url # <<>>
                           /\ resp'.body.checkout_url = local[p].checkout_session.url
                           /\ resp'.body.session_id = local[p].checkout_session.id
                           /\ resp'.body.order_id = local[p].order.order_id
                           /\ orders'[resp'.body.order_id].stripe_session_id
                                 = resp'.body.session_id
                           /\ PendingOrderOf(orders'[resp'.body.order_id],
                                             resp'.request)]_vars

\* C5 witness: a request with two items, one of them without a quantity, has been
\* answered with its session, and its order is stored pending with the total.
C5_Witness ==
    /\ resp.handler = "create_checkout_session"
    /\ resp.status = 200
    /\ Len(resp.request.body.items) = 2
    /\ orders[resp.body.order_id].total_amount = 3147
    /\ orders[resp.body.order_id].status = "pending"
    /\ orders[resp.body.order_id].stripe_session_id = resp.body.session_id

\* C6: a create-checkout request without items or without an email is answered
\* 400, creates no order and makes no provider call; no request of the kind gets
\* as far as the creation of an order.
C6_ValidationError ==
    [][/\ /\ Responds("create_checkout_session")
          /\ Parsed(resp'.request)
          /\ ~HasItems(resp'.request) \/ ~HasEmail(resp'.request)
          => /\ resp'.status = 400
             /\ orders' = orders
             /\ sessions' = sessions
       /\ \A p \in Procs :
             pc'[p] \in {"co_stripe", "co_save"}
                 => HasItems(local'[p].request) /\ HasEmail(local'[p].request)]_vars

\* C6 witness: with an order in the store, a request with items and an empty
\* email has been answered 400.
C6_Witness ==
    /\ resp.handler = "create_checkout_session"
    /\ resp.status = 400
    /\ Parsed(resp.request)
    /\ HasItems(resp.request)
    /\ ~HasEmail(resp.request)
    /\ "customer_email" \in DOMAIN resp.request.body
    /\ Len(orders) > 0

\* C7: the save of a verified session-expired delivery acknowledged with success
\* has set the status of its order to cancelled, changed no other order and sent
\* no notification; a verified session-expired delivery for a stored order gets
\* to that save, and never to the notification.
C7_ExpiredCancels ==
    [][\A p \in Procs :
          /\ pc[p] = "wh_get" /\ pc'[p] # "wh_get"
             /\ local[p].event.type = Expired /\ local[p].order_id \in Rows
             => pc'[p] = "wh_save" /\ orders' = orders /\ mail' = mail
          /\ pc[p] = "wh_save" /\ pc'[p] # "wh_save" /\ local[p].event.type = Expired
             => /\ pc'[p] = "idle"
                /\ mail' = mail
                /\ Len(orders') = Len(orders)
                /\ \A j \in Rows : j # local[p].order_id => orders'[j] = orders[j]
                /\ resp'.status = 200 \/ resp'.status = 500
                /\ resp'.status = 500 => orders' = orders /\ HeldByAnother(local[p].order)
                /\ resp'.status = 200
                      => orders'[local[p].order_id].status = "cancelled"]_vars

\* C7 witness: a session-expired delivery has been acknowledged and its order,
\* the first of two, is cancelled while the other is pending.
C7_Witness ==
    /\ resp.handler = "stripe_webhook"
    /\ resp.status = 200
    /\ resp.request.type = Expired
    /\ Len(orders) = 2
    /\ resp.request.data.object.metadata = [order_id |-> 1]
    /\ orders[1].status = "cancelled"
    /\ orders[2].status = "pending"
    /\ mail[1] = 0

\* the workers that have saved a session-completed delivery on order i and have
\* not yet called the notification
Notifying(i) == {p \in Procs : pc[p] = "wh_mail" /\ local[p].order_id = i}

\* C8: for every order the notifications triggered are as many as the
\* session-completed deliveries saved on it, less those whose handler is between
\* its save and its notification; the status of the order plays no part.
C8_NotificationPerDelivery ==
    \A i \in Rows : mail[i] + Cardinality(Notifying(i)) = applied[i]

\* C8 witness: an order already paid has been delivered session-completed again
\* and has two notifications.
C8_Witness ==
    \E i \in Rows : mail[i] = 2 /\ applied[i] = 2 /\ orders[i].status = "paid"

\* the orders a status query asks for
Asked(request) ==
    IF request.GET.session_id \notin {None, ""}
      THEN {i \in Rows : orders[i].stripe_session_id = request.GET.session_id}
      ELSE {i \in Rows : i = request.GET.order_id}

\* the query gives one identifier
OneIdentifier(request) ==
    (request.GET.session_id \in {None, ""}) # (request.GET.order_id = NoneInt)

\* C9: a status query by an identifier no order has is answered NotFound; by an
\* identifier of an order, with the order id, status, total and items of the
\* stored order; and the query changes nothing in the store.
C9_StatusQuery ==
    [][/\ Responds("get_order_status")
       /\ resp'.request.api_key = API_KEY
       /\ OneIdentifier(resp'.request)
       => /\ UNCHANGED <<orders, sessions, mail, applied, lastWrite, delivered>>
          /\ Asked(resp'.request) = {} => resp'.status = 404
          /\ \A i \in Asked(resp'.request) :
                /\ resp'.status = 200
                /\ resp'.body.order_id = i
                /\ resp'.body.status = orders[i].status
                /\ resp'.body.total_amount.sign = ""
                /\ resp'.body.total_amount.whole * 100 + resp'.body.total_amount.frac
                      = orders[i].total_amount
                /\ resp'.body.items = orders[i].items]_vars

\* C9 witness: a query by session reference has been answered with a paid order
\* whose total has cents.
C9_Witness ==
    /\ resp.handler = "get_order_status"
    /\ resp.status = 200
    /\ resp.request.GET.session_id \in SessionIds
    /\ resp.body.status = "paid"
    /\ resp.body.total_amount.frac # 0

\* C10: no two orders hold the same non-null session reference.
C10_SessionRefUnique ==
    \A i, j \in Rows :
        i # j /\ orders[i].stripe_session_id # None
            => orders[i].stripe_session_id # orders[j].stripe_session_id

\* C10 witness: the provider has returned for the second order the reference the
\* first order holds, and the save of the second order has been refused.
C10_Witness ==
    /\ resp.handler = "create_checkout_session"
    /\ resp.status = 500
    /\ ValidCheckout(resp.request)
    /\ Len(orders) = 2
    /\ orders[1].stripe_session_id # None
    /\ orders[2].stripe_session_id = None
    /\ \E s \in sessions : s.id = orders[1].stripe_session_id
                           /\ s.metadata = [order_id |-> 2]

\* C11: a create-checkout or order-status request without the right API key is
\* answered 401 with nothing but the error, before the view runs: no order is
\* created, no provider call made; no create-checkout in progress came without
\* the key.  The webhook route asks for no key: no delivery is answered 401.
C11_ApiKeyRequired ==
    [][/\ /\ Responds("create_checkout_session") \/ Responds("get_order_status")
          /\ resp'.request.api_key # API_KEY
          => /\ resp'.status = 401
             /\ DOMAIN resp'.body = {"error"}
             /\ \E p \in Procs : pc[p] = "idle" /\ pc' = pc
             /\ orders' = orders
             /\ sessions' = sessions
       /\ \A p \in Procs :
             pc'[p] \in {"co_stripe", "co_save"} => local'[p].request.api_key = API_KEY
       /\ Responds("stripe_webhook") => resp'.status # 401]_vars

\* C11 witness: a status query for a stored, paid order with a wrong key has been
\* answered 401.
C11_Witness ==
    /\ resp.handler = "get_order_status"
    /\ resp.status = 401
    /\ resp.request.api_key = "wrong"
    /\ resp.request.GET.order_id \in Rows
    /\ orders[resp.request.GET.order_id].status = "paid"

\* the value d gives for key k is there and is neither None nor empty
Supplies(d, k) == k \in DOMAIN d /\ d[k] \notin {None, ""}

\* field new is d[k] when the event supplies it, and else the prior value old
Overlaid(old, new, d, k) == IF Supplies(d, k) THEN new = d[k] ELSE new = old

\* C12: the save of a session-completed delivery overwrites the customer name and
\* each shipping field with the value of the event when the event supplies a
\* non-empty one, and leaves the prior value when the event omits the field or
\* gives it empty or null.
C12_OverlayOnlyNonEmpty ==
    [][\A p \in Procs :
          pc[p] = "wh_save" /\ pc'[p] = "wh_mail"
          => LET old == orders[local[p].order_id]
                 new == orders'[local[p].order_id]
                 session == local[p].event.data.object
                 shipping == IF "shipping_details" \in DOMAIN session
                               THEN session.shipping_details ELSE EmptyDict
                 address == IF "address" \in DOMAIN shipping
                              THEN shipping.address ELSE EmptyDict
             IN  /\ Overlaid(old.customer_name, new.customer_name, shipping, "name")
                 /\ Overlaid(old.shipping_address_line1, new.shipping_address_line1,
                             address, "line1")
                 /\ Overlaid(old.shipping_address_line2, new.shipping_address_line2,
                             address, "line2")
                 /\ Overlaid(old.shipping_city, new.shipping_city, address, "city")
                 /\ Overlaid(old.shipping_postal_code, new.shipping_postal_code,
                             address, "postal_code")
                 /\ Overlaid(old.shipping_country, new.shipping_country,
                             address, "country")]_vars

\* no session of the provider carries the id of order i, and no create-checkout
\* for it is in progress
Orphan(i) ==
    /\ \A s \in sessions : s.metadata # [order_id |-> i]
    /\ \A p \in Procs :
          pc[p] \in {"co_stripe", "co_save"} => local[p].order.order_id # i

\* C13: when the provider call fails the caller gets an error and the order stays
\* stored, pending and without session reference; no session carries its id, and
\* from then on no step changes it.
C13_OrphanStaysPending ==
    [][/\ \A p \in Procs :
             pc[p] = "co_stripe" /\ pc'[p] = "idle"
             => /\ resp'.handler = "create_checkout_session"
                /\ resp'.status = 400
                /\ DOMAIN resp'.body = {"error"}
                /\ orders' = orders
                /\ \A i \in Rows : i = local[p].order.order_id => Orphan(i)'
       /\ \A i \in Rows :
             Orphan(i)
             => /\ orders[i].status = "pending"
                /\ orders[i].stripe_session_id = None
                /\ orders'[i] = orders[i]
                /\ Orphan(i)']_vars

\* C13 witness: the first order is an orphan, and a session-completed delivery
\* for the second order has been saved and acknowledged since.
C13_Witness ==
    /\ Len(orders) = 2
    /\ Orphan(1)
    /\ orders[2].status = "paid"
    /\ resp.handler = "stripe_webhook"
    /\ resp.status = 200

\* the event names no order, or an order that is not stored
Unmatched(ev) ==
    \/ "order_id" \notin DOMAIN ev.data.object.metadata
    \/ ev.data.object.metadata.order_id \notin Rows

\* C14: a verified session-completed or session-expired delivery that names no
\* stored order is acknowledged with success, changes no order and triggers no
\* notification; no such delivery gets to a save or to the notification.
C14_UnknownOrderAcknowledged ==
    [][/\ /\ Responds("stripe_webhook")
          /\ resp'.request.sig_valid
          /\ resp'.request.type \in {Completed, Expired}
          /\ Unmatched(resp'.request)
          => /\ resp'.status = 200
             /\ orders' = orders
             /\ mail' = mail
       /\ \A p \in Procs :
             pc'[p] \in {"wh_save", "wh_mail"} => ~Unmatched(local'[p].event)]_vars

\* C14 witness: with a pending order stored, a verified session-completed delivery
\* naming an order that is not stored has been acknowledged.
C14_Witness ==
    /\ resp.handler = "stripe_webhook"
    /\ resp.status = 200
    /\ resp.request.sig_valid
    /\ resp.request.type = Completed
    /\ resp.request.data.object.metadata = [order_id |-> ForeignOrderId]
    /\ Len(orders) > 0
    /\ orders[1].status = "pending"

\* what the handler assigns to the instance for the event ev
ApplyEvent(order, ev) ==
    IF ev.type = Completed THEN ApplyCompleted(order, ev.data.object)
                           ELSE ApplyExpired(order)

\* the rows that result from applying the events log[k], k \in S, to base one after
\* another, each reading what the one before saved, in every order
RECURSIVE SerialResults(_, _, _)
SerialResults(base, log, S) ==
    IF S = {} THEN {base}
    ELSE UNION {{ApplyEvent(r, log[k]) : r \in SerialResults(base, log, S \ {k})} :
                k \in S}

\* the stored order but for the times: updated_at dropped, paid_at set or not
Timeless(order) ==
    [order EXCEPT !.updated_at = 0,
                  !.paid_at = IF @ = NoneInt THEN NoneInt ELSE 0]

\* C15: when no delivery for an order is between its read and its save, and the
\* deliveries saved so far all read the order after the checkout handler had
\* written it, the stored order is the result of applying those deliveries one
\* after another in some order.
C15_DeliveriesSerializable ==
    \A i \in Rows :
       /\ \A p \in Procs : pc[p] = "wh_save" => local[p].order_id # i
       /\ orders[i].stripe_session_id = delivered[i].base.stripe_session_id
       => Timeless(orders[i]) \in
             {Timeless(r) : r \in SerialResults(delivered[i].base, delivered[i].log,
                                                1..Len(delivered[i].log))}

\* C16: an order stored as paid or cancelled is never stored as pending again,
\* whatever the interleaving of the checkout request that created it and the
\* deliveries for it.
C16_NeverBackToPending ==
    [][\A i \in Rows :
          orders[i].status \in {"paid", "cancelled"} => orders'[i].status # "pending"]_vars

\* C17 as stated: the total of every stored order is the sum of price x quantity
\* over its stored items.
C17_TotalIsSumOfItems ==
    \A i \in Rows : IsSumPriceQuantity(orders[i].total_amount, orders[i].items)

\* the items with every quantity cut to its whole part
WholeQuantities(items) ==
    [k \in 1..Len(items) |->
        IF "quantity" \in DOMAIN items[k]
          THEN [items[k] EXCEPT !.quantity = @ - (@ % 100)]
          ELSE items[k]]

\* C17 amended: every order is stored with its index as id, currency EUR and the
\* sum over its items of price x whole part of quantity as total, which is the sum
\* of price x quantity when the quantities are whole numbers; items, total,
\* email, currency and id of a stored order never change.
C17_ItemsAndTotalAsCreated ==
    [][/\ \A i \in 1..Len(orders') :
             /\ orders'[i].order_id = i
             /\ orders'[i].currency = "EUR"
             /\ IsSumPriceQuantity(orders'[i].total_amount,
                                   WholeQuantities(orders'[i].items))
             /\ WholeQuantities(orders'[i].items) = orders'[i].items
                   => IsSumPriceQuantity(orders'[i].total_amount, orders'[i].items)
       /\ \A i \in Rows :
             /\ i \in 1..Len(orders')
             /\ orders'[i].items = orders[i].items
             /\ orders'[i].total_amount = orders[i].total_amount
             /\ orders'[i].customer_email = orders[i].customer_email
             /\ orders'[i].currency = orders[i].currency
             /\ orders'[i].order_id = orders[i].order_id]_vars

\* C17 witness: an order of two items, paid by a session-completed delivery, has
\* been queried, and its total is still the one of its creation.
C17_Witness ==
    /\ resp.handler = "get_order_status"
    /\ resp.status = 200
    /\ \E i \in Rows :
          /\ orders[i].status = "paid"
          /\ Len(orders[i].items) = 2
          /\ orders[i].total_amount = 3147
          /\ resp.body.order_id = i

\* C18: the status of every stored order is pending, paid or cancelled.
C18_StatusOneOfThree ==
    \A i \in Rows : orders[i].status \in {"pending", "paid", "cancelled"}

\* C18 witness: an order that a session-completed delivery stored as paid is
\* stored as cancelled by a session-expired delivery saved after it.
C18_Witness ==
    \E i \in Rows :
       /\ orders[i].status = "cancelled"
       /\ applied[i] > 0
       /\ lastWrite[i] # EmptyDict
       /\ lastWrite[i].type = Expired

\* C19: an order stored as paid has paid_at set.
C19_PaidHasPaidAt ==
    \A i \in Rows : orders[i].status = "paid" => orders[i].paid_at # NoneInt

\* C19 witness: an order is stored as paid, with paid_at, while a session-expired
\* delivery that read it as pending is about to save it.
C19_Witness ==
    \E i \in Rows, p \in Procs :
       /\ orders[i].status = "paid"
       /\ orders[i].paid_at # NoneInt
       /\ pc[p] = "wh_save"
       /\ local[p].order_id = i
       /\ local[p].order.status = "cancelled"
       /\ local[p].order.paid_at = NoneInt

\* C20: the notification step of a session-completed delivery answers success and
\* leaves the orders alone whether the mail went out or not; it is entered only
\* from the save that stored the order as paid with the payment reference of the
\* event and paid_at, and no other step sends a notification.
C20_NotificationFailureSwallowed ==
    [][/\ \A p \in Procs :
             pc[p] = "wh_mail" /\ pc'[p] = "idle"
             => /\ resp'.handler = "stripe_webhook"
                /\ resp'.status = 200
                /\ resp'.body.status = "success"
                /\ orders' = orders
       /\ \A p \in Procs :
             pc[p] # "wh_mail" /\ pc'[p] = "wh_mail"
             => /\ pc[p] = "wh_save"
                /\ orders'[local'[p].order_id].status = "paid"
                /\ orders'[local'[p].order_id].paid_at # NoneInt
                /\ orders'[local'[p].order_id].stripe_payment_intent_id
                      = Get(local'[p].event.data.object, "payment_intent", None)
       /\ \A i \in Rows :
             mail'[i] # mail[i] => \E p \in Procs : pc[p] = "wh_mail" /\ pc'[p] = "idle"]_vars

\* C20 witness: a session-completed delivery whose mail failed has been answered
\* success, and its order is stored as paid with payment reference and paid_at.
C20_Witness ==
    /\ resp.handler = "stripe_webhook"
    /\ resp.status = 200
    /\ resp.request.type = Completed
    /\ "mail_sent" \in DOMAIN resp.body
    /\ ~resp.body.mail_sent
    /\ \E i \in Rows :
          /\ resp.request.data.object.metadata = [order_id |-> i]
          /\ orders[i].status = "paid"
          /\ orders[i].stripe_payment_intent_id \in PaymentIntents
          /\ orders[i].paid_at # NoneInt

====
